---- MODULE Spec2Model ----
(***************************************************************************)
(* Model of the two command-line programs of Weather_tracker_api:          *)
(*   city_weather_info.py      ("snapshot": current weather, bar chart)    *)
(*   city_weather_forecast.py  ("forecast": 5-day forecast, line chart)    *)
(* Both read one line of text, split it into locations, resolve each one   *)
(* with the geocoding service (get_coordinates), fetch weather for every   *)
(* resolved city, write two JSON files and draw a chart.                   *)
(*                                                                         *)
(* The external services are the environment: every HTTP call draws its    *)
(* reply from a set of possible replies.  Writes of the two JSON files     *)
(* are taken to succeed (a failed write is caught inside save_json and     *)
(* only printed).                                                          *)
(***************************************************************************)
EXTENDS Integers, Sequences, FiniteSets, TLC

\* ---------------------------------------------------------------- bounds
\* longest line of user input that is explored
MaxLen == 3

\* ------------------------------------------------------------- text model
\* A string is a sequence of one-character strings.
Chars == {"a", " ", ";", ","}

RECURSIVE StringsUpTo(_)
StringsUpTo(n) ==
    IF n = 0 THEN {<<>>}
    ELSE LET shorter == StringsUpTo(n - 1)
         IN  shorter \cup {Append(s, c) : s \in {t \in shorter : Len(t) = n - 1}, c \in Chars}

QUIT == <<"q", "u", "i", "t">>

\* what input() can return
Inputs == StringsUpTo(MaxLen) \cup {QUIT}

\* str.split(sep): the pieces between the separators, empty pieces kept
RECURSIVE SplitFrom(_, _, _, _)
SplitFrom(s, sep, i, cur) ==
    IF i > Len(s) THEN <<cur>>
    ELSE IF s[i] = sep THEN <<cur>> \o SplitFrom(s, sep, i + 1, <<>>)
    ELSE SplitFrom(s, sep, i + 1, Append(cur, s[i]))

Split(s, sep) == SplitFrom(s, sep, 1, <<>>)

\* str.strip(): leading and trailing white space removed
RECURSIVE LStrip(_)
LStrip(s) == IF s # <<>> /\ Head(s) = " " THEN LStrip(Tail(s)) ELSE s

RECURSIVE RStrip(_)
RStrip(s) ==
    IF s # <<>> /\ s[Len(s)] = " " THEN RStrip(SubSeq(s, 1, Len(s) - 1)) ELSE s

Strip(s) == RStrip(LStrip(s))

IsLetter(c) == c \in {"a", "A"}

\* str.title(): a letter that follows a non-letter is upper case, any other
\* letter lower case
Title(s) ==
    [i \in 1..Len(s) |->
        IF ~IsLetter(s[i]) THEN s[i]
        ELSE IF i = 1 \/ ~IsLetter(s[i - 1]) THEN "A" ELSE "a"]

\* str.upper()
Upper(s) == [i \in 1..Len(s) |-> IF IsLetter(s[i]) THEN "A" ELSE s[i]]

\* [f(x) for x in xs]
StripAll(xs) == [i \in 1..Len(xs) |-> Strip(xs[i])]

\* main: user_locations = [location.strip() for location in user_input.split(';')]
UserLocations(user_in) == StripAll(Split(user_in, ";"))

\* get_coordinates: the 'q' parameter built from the location text
GeoQuery(location) ==
    LET raw   == Split(location, ",")
        parts == [i \in 1..Len(raw) |-> Title(Strip(raw[i]))]
        city  == parts[1]
        cc    == IF Len(parts) > 1 THEN Upper(parts[2]) ELSE <<>>
    IN  city \o (IF cc # <<>> THEN <<",">> \o cc ELSE <<>>)

\* ------------------------------------------------------------ the services
\* Python's None, and any value absent from a reply
None == <<>>

\* The programs differ in one argument of requests.get: the snapshot program
\* passes timeout=REQUEST_TIMEOUT, the forecast program passes no timeout.
HasTimeout(v) == v = "snapshot"

\* A reply of the geocoding service to one GET.  kind:
\*   "transport"  connection error or non-2xx status (raise_for_status)
\*   "noanswer"   the service never answers
\*   "badjson"    2xx, the body is not JSON
\*   "object"     2xx, the body is a non-empty JSON object, not an array
\*   "array"      2xx, the body is a JSON array; body lists its elements:
\*                k >= 1 is the k-th candidate object, 0 is an element that
\*                is not an object (a string, a number)
CandidateArrays == {<<>>, <<1>>, <<1, 2>>}

GeoReplies ==
    {[kind |-> k, body |-> <<>>] : k \in {"transport", "noanswer", "badjson", "object"}}
    \cup {[kind |-> "array", body |-> b] : b \in CandidateArrays \cup {<<0>>}}

\* The dict get_coordinates returns for candidate number rank of the reply to
\* query q: name, latitude, longitude, country and state are copied from it.
Location(q, rank) == <<q, rank>>

\* The outcome of a call: the value returned, or raised = TRUE when an
\* exception leaves the function.
Returns(v) == [raised |-> FALSE, value |-> v]
Raises == [raised |-> TRUE, value |-> None]

\* city_weather_info.get_coordinates, from the reply to its return:
\* data[0] is the candidate used.
GeoResultSnapshot(q, reply) ==
    CASE reply.kind \in {"transport", "noanswer"} -> Returns(None)   \* RequestException
      [] reply.kind = "badjson" -> Returns(None)                     \* JSONDecodeError
      [] reply.kind = "object" -> Raises                             \* data[0]: KeyError
      [] reply.kind = "array" ->
            IF reply.body = <<>> THEN Returns(None)                  \* "No results found"
            ELSE IF reply.body[1] = 0 THEN Raises                    \* .get: AttributeError
            ELSE Returns(Location(q, reply.body[1]))

\* city_weather_forecast.get_coordinates: the loop over the reply overwrites
\* extracted_info for every element, the value after the loop is returned.
GeoResultForecast(q, reply) ==
    CASE reply.kind = "transport" -> Returns(None)
      [] reply.kind = "badjson" -> Returns(None)
      [] reply.kind = "object" -> Raises                 \* iterates the keys: str has no .get
      [] reply.kind = "array" ->
            IF reply.body = <<>> THEN Returns(None)
            ELSE IF \E i \in 1..Len(reply.body) : reply.body[i] = 0 THEN Raises
            ELSE Returns(Location(q, reply.body[Len(reply.body)]))

GeoResult(v, q, reply) ==
    IF v = "snapshot" THEN GeoResultSnapshot(q, reply) ELSE GeoResultForecast(q, reply)

\* A reply of the weather service.  kind "json" carries the shape of the body:
\*   "emptybody"  an empty JSON value ({} or []), falsy in Python
\*   "full"       the documented payload
\*   "nodata"     forecast: an object whose 'list' is missing or empty
\*   "badfields"  an object (forecast: list entries) without the documented
\*                fields 'name', 'main', 'dt_txt'
WxShapes(v) ==
    IF v = "snapshot" THEN {"emptybody", "full", "badfields"}
    ELSE {"emptybody", "full", "nodata", "badfields"}

WxReplies(v) ==
    {[kind |-> k, shape |-> "none"] : k \in {"transport", "noanswer", "badjson"}}
    \cup {[kind |-> "json", shape |-> s] : s \in WxShapes(v)}

\* the parsed body returned for city_info
Record(city_info, shape) == <<city_info, shape>>

\* get_weather_data / get_weather_forecast, from the reply to the return
WxResult(city_info, reply) ==
    IF reply.kind = "json" THEN Returns(Record(city_info, reply.shape))
    ELSE Returns(None)

\* Python truth value of a parsed weather body: an empty one is falsy
Truthy(rec) == rec # None /\ rec[2] # "emptybody"

\* mutant: the city_info is appended without the test
AppendCityInfo_NoTest(xs, city_info) == Append(xs, city_info)

\* if city_info: extracted_data.append(city_info)
\* (the dict get_coordinates builds has five keys, so it is always truthy)
AppendCityInfo(xs, city_info) == IF city_info # None THEN Append(xs, city_info) ELSE xs

\* mutant: the list is replaced by the new record instead of extended
AppendRecord_Overwrites(xs, rec) == IF Truthy(rec) THEN <<rec>> ELSE xs

\* if weather_data: city_weather_data.append(weather_data)
AppendRecord(xs, rec) == IF Truthy(rec) THEN Append(xs, rec) ELSE xs

\* plot_forecast: TRUE when it raises (item['dt_txt'], item['main']['temp'])
PlotForecastRaises(rec) == rec[2] = "badfields"
\* plot_forecast: TRUE when a series is drawn for the record
PlotForecastDraws(rec) == rec[2] = "full"

\* plot_temperatures: TRUE when it raises (city['name'], city['main'][...])
PlotTemperaturesRaises(recs) == \E i \in 1..Len(recs) : recs[i][2] # "full"

\* -------------------------------------------------------------------- state
VARIABLES
    variant,          \* which program runs: "snapshot" or "forecast"
    pc,               \* position of main
    user_input,       \* the line last read by input()
    user_locations,   \* the stripped pieces of user_input
    idx,              \* position of the resolution loop in user_locations
    extracted_data,   \* the resolved city_info dicts
    widx,             \* position of the retrieval loop in extracted_data
    weather,          \* city_weather_data / city_forecasts
    ret,              \* outcome of the call in progress (Returns(None) between calls)
    coordFile,        \* what this batch wrote to city_coordinates.json
    weatherFile,      \* what this batch wrote to city_weather_data.json /
                      \* city_weather_forecast.json
    \* history of the current batch
    geoCalls,         \* argument of every get_coordinates call, in order
    geoRets,          \* what every finished get_coordinates call returned
    geoSleeps,        \* time.sleep calls finished inside get_coordinates
    lastReply,        \* the reply the call in progress received
    wxRets,           \* what every finished weather call returned
    saved,            \* the files written by this batch
    series,           \* the records drawn on the chart so far
    handed,           \* a renderer (plot_forecast, plot_temperatures) was called
    shown             \* plt.show() was called

vars == <<variant, pc, user_input, user_locations, idx, extracted_data, widx, weather,
          ret, coordFile, weatherFile, geoCalls, geoRets, geoSleeps,
          lastReply, wxRets, saved, series, handed, shown>>

NoReply == [kind |-> "none"]

history == <<geoCalls, geoRets, geoSleeps, lastReply, wxRets, saved, series, handed, shown>>

Init ==
    /\ variant \in {"snapshot", "forecast"}
    /\ pc = "prompt"
    /\ user_input = <<>>
    /\ user_locations = <<>>
    /\ idx = 1
    /\ extracted_data = <<>>
    /\ widx = 1
    /\ weather = <<>>
    /\ ret = Returns(None)
    /\ coordFile = <<>>
    /\ weatherFile = <<>>
    /\ geoCalls = <<>>
    /\ geoRets = <<>>
    /\ geoSleeps = 0
    /\ lastReply = NoReply
    /\ wxRets = <<>>
    /\ saved = {}
    /\ series = <<>>
    /\ handed = FALSE
    /\ shown = FALSE

\* ----------------------------------------------------------- main: the prompt
\* user_input == "quit": break
Quit ==
    /\ pc = "prompt"
    /\ user_input' = QUIT
    /\ pc' = "exited"
    /\ UNCHANGED <<variant, user_locations, idx, extracted_data, widx, weather, ret,
                   coordFile, weatherFile, history>>

\* not user_input: print a message, continue
RejectEmpty ==
    /\ pc = "prompt"
    /\ user_input' = <<>>
    /\ UNCHANGED <<variant, pc, user_locations, idx, extracted_data, widx, weather, ret,
                   coordFile, weatherFile, history>>

\* any other line: split it and enter the resolution loop.  The snapshot
\* program creates its two lists inside the while loop, the forecast program
\* before it (and leaves the loop after one batch).  The programs never read
\* the two files, so what an earlier batch left in them is forgotten here:
\* coordFile and weatherFile hold what the batch now starting writes.
StartBatch ==
    /\ pc = "prompt"
    /\ \E line \in Inputs \ {QUIT, <<>>} :
          /\ user_input' = line
          /\ user_locations' = UserLocations(line)
    /\ idx' = 1
    /\ widx' = 1
    /\ extracted_data' = IF variant = "snapshot" THEN <<>> ELSE extracted_data
    /\ weather' = IF variant = "snapshot" THEN <<>> ELSE weather
    /\ pc' = "resolve"
    /\ geoCalls' = <<>>
    /\ geoRets' = <<>>
    /\ geoSleeps' = 0
    /\ lastReply' = NoReply
    /\ wxRets' = <<>>
    /\ saved' = {}
    /\ series' = <<>>
    /\ handed' = FALSE
    /\ shown' = FALSE
    /\ coordFile' = <<>>
    /\ weatherFile' = <<>>
    /\ UNCHANGED <<variant, ret>>

\* ------------------------------------------------------------ get_coordinates
\* The call for user_locations[idx], up to the end of the try block: the
\* request is sent and the reply handled.  Without a timeout a request the
\* service never answers blocks for ever.
GeoRequest ==
    /\ pc = "resolve"
    /\ idx <= Len(user_locations)
    /\ geoCalls' = Append(geoCalls, user_locations[idx])
    /\ \E reply \in GeoReplies :
          /\ lastReply' = reply
          /\ IF reply.kind = "noanswer" /\ ~HasTimeout(variant)
             THEN pc' = "hung" /\ ret' = ret
             ELSE /\ pc' = "geo_finally"
                  /\ ret' = GeoResult(variant, GeoQuery(user_locations[idx]), reply)
    /\ UNCHANGED <<variant, user_input, user_locations, idx, extracted_data, widx,
                   weather, coordFile, weatherFile, geoRets, geoSleeps,
                   wxRets, saved, series, handed, shown>>

\* mutant: the sleep is the last statement of the try block instead of a
\* finally block, so an exception skips it
GeoSleep_NotOnException ==
    /\ pc = "geo_finally"
    /\ geoSleeps' = IF ret.raised THEN geoSleeps ELSE geoSleeps + 1
    /\ pc' = "geo_return"
    /\ UNCHANGED <<variant, user_input, user_locations, idx, extracted_data, widx,
                   weather, ret, coordFile, weatherFile, geoCalls, geoRets,
                   lastReply, wxRets, saved, series, handed, shown>>

\* finally: time.sleep(RATE_LIMIT_DELAY)
GeoSleep ==
    /\ pc = "geo_finally"
    /\ geoSleeps' = geoSleeps + 1
    /\ pc' = "geo_return"
    /\ UNCHANGED <<variant, user_input, user_locations, idx, extracted_data, widx,
                   weather, ret, coordFile, weatherFile, geoCalls, geoRets,
                   lastReply, wxRets, saved, series, handed, shown>>

\* back in main: an exception that left get_coordinates ends the program, a
\* returned city_info is appended when it is truthy, and the loop moves on
GeoReturn ==
    /\ pc = "geo_return"
    /\ IF ret.raised
       THEN /\ pc' = "crashed"
            /\ UNCHANGED <<idx, extracted_data, geoRets, ret, lastReply>>
       ELSE /\ pc' = "resolve"
            /\ idx' = idx + 1
            /\ extracted_data' = AppendCityInfo(extracted_data, ret.value)
            /\ geoRets' = Append(geoRets, ret.value)
            /\ ret' = Returns(None)
            /\ lastReply' = NoReply
    /\ UNCHANGED <<variant, user_input, user_locations, widx, weather, coordFile,
                   weatherFile, geoCalls, geoSleeps, wxRets, saved,
                   series, handed, shown>>

\* mutant: save_json is indented into the loop body and runs after every query
SaveCoordinates_InsideLoop ==
    /\ pc = "resolve"
    /\ idx > 1
    /\ "coordinates" \notin saved \/ idx > Len(user_locations)
    /\ coordFile' = extracted_data
    /\ saved' = saved \cup {"coordinates"}
    /\ widx' = 1
    /\ pc' = IF idx > Len(user_locations) THEN "retrieve" ELSE "resolve"
    /\ UNCHANGED <<variant, user_input, user_locations, idx, extracted_data, weather,
                   ret, weatherFile, geoCalls, geoRets, geoSleeps, lastReply,
                   wxRets, series, handed, shown>>

\* after the loop: save_json(extracted_data, COORDINATES_FILE)
SaveCoordinates ==
    /\ pc = "resolve"
    /\ idx > Len(user_locations)
    /\ coordFile' = extracted_data
    /\ saved' = saved \cup {"coordinates"}
    /\ widx' = 1
    /\ pc' = "retrieve"
    /\ UNCHANGED <<variant, user_input, user_locations, idx, extracted_data, weather,
                   ret, weatherFile, geoCalls, geoRets, geoSleeps, lastReply,
                   wxRets, series, handed, shown>>

\* ------------------------------------- get_weather_data, get_weather_forecast
\* The call for extracted_data[widx], up to the return statement.  Only the
\* snapshot program has a finally block (and a timeout) here.
WeatherRequest ==
    /\ pc = "retrieve"
    /\ widx <= Len(extracted_data)
    /\ \E reply \in WxReplies(variant) :
          /\ lastReply' = reply
          /\ IF reply.kind = "noanswer" /\ ~HasTimeout(variant)
             THEN pc' = "hung" /\ ret' = ret
             ELSE /\ pc' = IF variant = "snapshot" THEN "wx_finally" ELSE "wx_return"
                  /\ ret' = WxResult(extracted_data[widx], reply)
    /\ UNCHANGED <<variant, user_input, user_locations, idx, extracted_data, widx,
                   weather, coordFile, weatherFile, geoCalls, geoRets,
                   geoSleeps, wxRets, saved, series, handed, shown>>

\* city_weather_info.get_weather_data, finally: time.sleep(RATE_LIMIT_DELAY)
WxSleep ==
    /\ pc = "wx_finally"
    /\ pc' = "wx_return"
    /\ UNCHANGED <<variant, user_input, user_locations, idx, extracted_data, widx,
                   weather, ret, coordFile, weatherFile, history>>

\* back in main: a truthy record is appended; the forecast program then
\* plots it right away, the snapshot program moves on to the next city
WxReturn ==
    /\ pc = "wx_return"
    /\ weather' = AppendRecord(weather, ret.value)
    /\ wxRets' = Append(wxRets, ret.value)
    /\ ret' = Returns(None)
    /\ lastReply' = NoReply
    /\ IF variant = "forecast" /\ Truthy(ret.value)
       THEN pc' = "plot_one" /\ widx' = widx
       ELSE pc' = "retrieve" /\ widx' = widx + 1
    /\ UNCHANGED <<variant, user_input, user_locations, idx, extracted_data,
                   coordFile, weatherFile, geoCalls, geoRets, geoSleeps,
                   saved, series, handed, shown>>

\* city_weather_forecast: plot_forecast(forecast_data, city_info['name'], ax)
PlotForecast ==
    /\ pc = "plot_one"
    /\ handed' = TRUE
    /\ LET rec == weather[Len(weather)]
       IN  IF PlotForecastRaises(rec)
           THEN /\ pc' = "crashed"
                /\ UNCHANGED <<widx, series>>
           ELSE /\ pc' = "retrieve"
                /\ widx' = widx + 1
                /\ series' = IF PlotForecastDraws(rec) THEN Append(series, rec) ELSE series
    /\ UNCHANGED <<variant, user_input, user_locations, idx, extracted_data, weather,
                   ret, coordFile, weatherFile, geoCalls, geoRets, geoSleeps,
                   lastReply, wxRets, saved, shown>>

\* ------------------------------------------------------- the end of a batch
\* city_weather_info: save_json(city_weather_data, WEATHER_DATA_FILE)
SaveWeatherData ==
    /\ variant = "snapshot"
    /\ pc = "retrieve"
    /\ widx > Len(extracted_data)
    /\ weatherFile' = weather
    /\ saved' = saved \cup {"weather"}
    /\ pc' = "plot"
    /\ UNCHANGED <<variant, user_input, user_locations, idx, extracted_data, widx,
                   weather, ret, coordFile, geoCalls, geoRets, geoSleeps,
                   lastReply, wxRets, series, handed, shown>>

\* city_weather_info: plot_temperatures(city_weather_data)
PlotTemperatures ==
    /\ pc = "plot"
    /\ handed' = TRUE
    /\ IF weather = <<>>
       THEN pc' = "again" /\ UNCHANGED <<series, shown>>       \* "No weather data to plot."
       ELSE IF PlotTemperaturesRaises(weather)
       THEN pc' = "crashed" /\ UNCHANGED <<series, shown>>
       ELSE pc' = "again" /\ series' = weather /\ shown' = TRUE
    /\ UNCHANGED <<variant, user_input, user_locations, idx, extracted_data, widx,
                   weather, ret, coordFile, weatherFile, geoCalls, geoRets,
                   geoSleeps, lastReply, wxRets, saved>>

\* city_weather_info: the while loop starts over.  Nothing of the finished
\* batch is read again (the lists are created anew, the files overwritten),
\* so the program is back in its initial state.
LoopBack ==
    /\ pc = "again"
    /\ pc' = "prompt"
    /\ user_input' = <<>>
    /\ user_locations' = <<>>
    /\ idx' = 1
    /\ widx' = 1
    /\ extracted_data' = <<>>
    /\ weather' = <<>>
    /\ coordFile' = <<>>
    /\ weatherFile' = <<>>
    /\ geoCalls' = <<>>
    /\ geoRets' = <<>>
    /\ geoSleeps' = 0
    /\ wxRets' = <<>>
    /\ saved' = {}
    /\ series' = <<>>
    /\ handed' = FALSE
    /\ shown' = FALSE
    /\ UNCHANGED <<variant, ret, lastReply>>

\* city_weather_forecast: the axes are labelled and plt.show() is called
ShowChart ==
    /\ variant = "forecast"
    /\ pc = "retrieve"
    /\ widx > Len(extracted_data)
    /\ shown' = TRUE
    /\ pc' = "save_forecast"
    /\ UNCHANGED <<variant, user_input, user_locations, idx, extracted_data, widx,
                   weather, ret, coordFile, weatherFile, geoCalls, geoRets,
                   geoSleeps, lastReply, wxRets, saved, series, handed>>

\* city_weather_forecast: save_json(city_forecasts, FORECAST_FILE); break
SaveForecasts ==
    /\ pc = "save_forecast"
    /\ weatherFile' = weather
    /\ saved' = saved \cup {"weather"}
    /\ pc' = "exited"
    /\ UNCHANGED <<variant, user_input, user_locations, idx, extracted_data, widx,
                   weather, ret, coordFile, geoCalls, geoRets, geoSleeps,
                   lastReply, wxRets, series, handed, shown>>

Next ==
    \/ Quit
    \/ RejectEmpty
    \/ StartBatch
    \/ GeoRequest
    \/ GeoSleep
    \/ GeoReturn
    \/ SaveCoordinates
    \/ WeatherRequest
    \/ WxSleep
    \/ WxReturn
    \/ PlotForecast
    \/ SaveWeatherData
    \/ PlotTemperatures
    \/ LoopBack
    \/ ShowChart
    \/ SaveForecasts

Spec == Init /\ [][Next]_vars

\* ------------------------------------------------------ notions of the claims
\* a batch is under way (or has ended in this state)
InBatch == user_locations # <<>>

\* control is inside get_coordinates, between the request and the sleep
InGeoRequest == pc = "geo_finally" \/ (pc = "hung" /\ "coordinates" \notin saved)

\* every resolution has returned (idx moves on when a call returns)
ResolutionsComplete == InBatch /\ idx > Len(user_locations)

\* every retrieval has returned and, in forecast mode, been plotted
RetrievalsComplete == ResolutionsComplete /\ widx > Len(extracted_data)

IsBlank(line) == \A i \in 1..Len(line) : line[i] = " "

NotEmpty(x) == x # <<>>
NotNone(x) == x # None

\* the pieces of the line that are non-empty after trimming, in input order
NonEmptySegments(line) == SelectSeq(StripAll(Split(line, ";")), NotEmpty)

\* a city[,country] segment with a city
WellFormed(segment) == Strip(Split(segment, ",")[1]) # <<>>

HasWellFormedSegment(line) ==
    \E i \in 1..Len(Split(line, ";")) : WellFormed(Split(line, ";")[i])

IsPrefix(xs, ys) == Len(xs) <= Len(ys) /\ xs = SubSeq(ys, 1, Len(xs))

\* the geocoding reply in hand has the given shape
GeoReplyIs(kinds) == pc \in {"geo_finally", "geo_return"} /\ lastReply.kind \in kinds

EmptyArrayReply == GeoReplyIs({"array"}) /\ lastReply.body = <<>>

\* ------------------------------------------------------------------- claims
\* C1 (as claimed): for a line with at least one well-formed segment, the
\* resolution attempts are exactly the segments that are non-empty after
\* trimming, in input order; an empty segment never reaches get_coordinates.
C1_OneAttemptPerNonEmptySegment ==
    (InBatch /\ HasWellFormedSegment(user_input)) =>
        /\ \A i \in 1..Len(geoCalls) : geoCalls[i] # <<>>
        /\ IsPrefix(geoCalls, NonEmptySegments(user_input))
        /\ ResolutionsComplete => geoCalls = NonEmptySegments(user_input)

\* C2 (as claimed): an empty or white-space-only line is rejected before any
\* network activity: no geocoding request is sent and no batch is started.
C2_BlankInputRejected ==
    IsBlank(user_input) => (geoCalls = <<>> /\ ~InBatch /\ pc = "prompt")

\* C3, in every state: an empty array gives None; the resolved list is the
\* non-None results in call order, each built for its own query; every weather
\* call is for a resolved city; the location file is written after every
\* query was tried and holds exactly the Locations returned.
C3_Inv ==
    /\ EmptyArrayReply => ret = Returns(None)
    /\ InBatch =>
          /\ extracted_data = SelectSeq(geoRets, NotNone)
          /\ \A i \in 1..Len(geoRets) :
                geoRets[i] # None => geoRets[i][1] = GeoQuery(user_locations[i])
          /\ Len(wxRets) <= Len(extracted_data)
          /\ \A i \in 1..Len(wxRets) :
                wxRets[i] # None => wxRets[i][1] = extracted_data[i]
    /\ "coordinates" \in saved =>
          /\ Len(geoRets) = Len(user_locations)
          /\ coordFile = SelectSeq(geoRets, NotNone)

\* C3, in every step: main's step after an empty array adds no entry, sends
\* no weather request and moves on to the next query.
C3_Step ==
    (EmptyArrayReply /\ pc = "geo_return") =>
        /\ pc' = "resolve"
        /\ idx' = idx + 1
        /\ geoRets' = Append(geoRets, None)
        /\ extracted_data' = extracted_data
        /\ wxRets' = wxRets
        /\ weather' = weather

\* C3: when the geocoding service replies with an empty array, get_coordinates
\* returns None, no weather retrieval is made and no entry added for that
\* query, the loop goes on with the remaining queries, and the location file
\* holds exactly the resolved queries' Locations in input order.
C3_EmptyResultSkipsOnlyThatQuery == [](C3_Inv) /\ [][C3_Step]_vars

\* C3 witness: an empty array arrives for a query that has resolved queries
\* before it and more queries after it
C3_Witness ==
    /\ EmptyArrayReply
    /\ pc = "geo_return"
    /\ extracted_data # <<>>
    /\ idx < Len(user_locations)

\* C4: once the weather file is written, it holds the records of the
\* retrievals that succeeded, in order, and nothing for those that failed,
\* while the location file holds every resolved city: with A failed and B
\* succeeded, B's record is in the weather file, A has none, and both A and B
\* are in the location file.
C4_FailedRetrievalOmitsOnlyThatCity ==
    "weather" \in saved =>
        /\ Len(wxRets) = Len(extracted_data)
        /\ \A a, b \in 1..Len(wxRets) :
              (wxRets[a] = None /\ Truthy(wxRets[b])) =>
                  /\ \E k \in 1..Len(weatherFile) : weatherFile[k] = wxRets[b]
                  /\ weatherFile = SelectSeq(wxRets, Truthy)
                  /\ Len(weatherFile) < Len(wxRets)
                  /\ Len(coordFile) = Len(wxRets)
                  /\ coordFile[a] = extracted_data[a]
                  /\ coordFile[b] = extracted_data[b]
                  /\ wxRets[b][1] = extracted_data[b]

\* C4 witness: the weather file is written after A's retrieval failed and
\* B's succeeded
C4_Witness ==
    /\ "weather" \in saved
    /\ \E a, b \in 1..Len(wxRets) : wxRets[a] = None /\ Truthy(wxRets[b])

\* C5: whenever control is outside get_coordinates, every geocoding request
\* sent so far has been followed by its sleep, whatever the request's outcome
\* (a returned city, None, or an exception on its way out); requests are only
\* sent from main's loop, so none is sent before the previous delay is over.
C5_DelayAfterEveryAttempt ==
    geoSleeps = (IF InGeoRequest THEN Len(geoCalls) - 1 ELSE Len(geoCalls))

\* C5 witness: a second call is leaving get_coordinates with an exception,
\* its sleep done
C5_Witness ==
    /\ pc = "geo_return"
    /\ ret.raised
    /\ Len(geoCalls) >= 2
    /\ geoSleeps = Len(geoCalls)

\* C6 (as claimed): on a transport failure, a body that is not JSON or a body
\* of an unexpected shape (an object, an array of non-objects),
\* get_coordinates returns None and raises nothing.
C6_MalformedReplyGivesAbsent ==
    (\/ GeoReplyIs({"transport", "badjson", "object"})
     \/ (GeoReplyIs({"array"}) /\ \E i \in 1..Len(lastReply.body) : lastReply.body[i] = 0))
        => ret = Returns(None)

\* C7 (as claimed): no error of a per-city step ends the run before both
\* files are written.
C7_NoStepAbortsTheBatch ==
    pc = "crashed" => {"coordinates", "weather"} \subseteq saved

\* C8 (as claimed): the location file is written only when all resolutions
\* and retrievals are complete, the weather file after the location file, and
\* no renderer is called before the weather file is written.
C8_PersistThenRender ==
    /\ "coordinates" \in saved => RetrievalsComplete
    /\ "weather" \in saved => "coordinates" \in saved
    /\ (handed \/ shown) => "weather" \in saved

\* C8 (amended): the location file is written when all resolutions are
\* complete and before any retrieval; the weather file is written after the
\* location file and after all retrievals; the snapshot program calls its
\* renderer only after the weather file is written; the forecast program
\* plots every record right after its retrieval and shows the chart before it
\* writes the weather file.
C8_ActualOrder ==
    /\ "coordinates" \in saved => ResolutionsComplete
    /\ (wxRets # <<>> \/ pc \in {"wx_finally", "wx_return", "plot_one"})
          => "coordinates" \in saved
    /\ "weather" \in saved => ("coordinates" \in saved /\ RetrievalsComplete)
    /\ variant = "snapshot" => ((handed \/ shown) => "weather" \in saved)
    /\ variant = "forecast" =>
          /\ "weather" \in saved => shown
          /\ (weather # <<>> /\ pc # "plot_one") => handed
          /\ shown => RetrievalsComplete

\* C8 witness: the forecast program has plotted two records, shown the chart
\* and then written the weather file
C8_Witness ==
    /\ variant = "forecast"
    /\ saved = {"coordinates", "weather"}
    /\ Len(series) >= 2
    /\ shown

\* C9 (as claimed): when the reply is an array of one or more candidates,
\* the Location returned is built from its first element.
C9_FirstCandidateWins ==
    (/\ GeoReplyIs({"array"})
     /\ lastReply.body # <<>>
     /\ \A i \in 1..Len(lastReply.body) : lastReply.body[i] # 0)
        => ret = Returns(Location(GeoQuery(geoCalls[Len(geoCalls)]), lastReply.body[1]))

\* C10 (as claimed): a call the service never answers ends as a transport
\* failure: the call returns None and the program does not block.
C10_EveryCallTimesOut ==
    lastReply.kind = "noanswer" => (pc # "hung" /\ ret = Returns(None))

====
